---- MODULE Spec2Model ----
(***************************************************************************)
(* Model of src/index.js: the four-step pipeline (pack, install, verify    *)
(* exports, check published files) run by the top-level loop, with the     *)
(* manifest validation helpers and getTgzName as operators.                *)
(*                                                                         *)
(* JavaScript strings are sequences of one-character strings, so that      *)
(* startsWith / endsWith / includes / replace / slice are computed.        *)
(***************************************************************************)
EXTENDS Integers, Sequences, FiniteSets

(***************************************************************************)
(* Bounds of the explored inputs.                                          *)
(***************************************************************************)
\* largest number of keys of an "exports" object
MaxKeys == 2
\* largest number of files in the installed package
MaxFiles == 4

(***************************************************************************)
(* String primitives of String.prototype, on sequences of characters.      *)
(***************************************************************************)
startsWith(s, p) == Len(s) >= Len(p) /\ SubSeq(s, 1, Len(p)) = p

endsWith(s, p) == Len(s) >= Len(p) /\ SubSeq(s, Len(s) - Len(p) + 1, Len(s)) = p

\* 1-based position of the first occurrence of p in s, 0 when there is none
indexOf(s, p) ==
    LET hits == {i \in 1..(Len(s) - Len(p) + 1) : SubSeq(s, i, i + Len(p) - 1) = p}
    IN  IF hits = {} THEN 0 ELSE CHOOSE i \in hits : \A j \in hits : i <= j

includes(s, p) == indexOf(s, p) # 0

\* String.prototype.replace with a string pattern: the first occurrence only
replace(s, p, r) ==
    LET i == indexOf(s, p)
    IN  IF i = 0 THEN s
        ELSE SubSeq(s, 1, i - 1) \o r \o SubSeq(s, i + Len(p), Len(s))

\* String.prototype.slice(n) for n >= 0
slice(s, n) == SubSeq(s, n + 1, Len(s))

(***************************************************************************)
(* JSON values of the manifest.  An object is kept as Object.keys(object), *)
(* the only thing the program reads of it; an array is the object whose    *)
(* keys are its indices.                                                   *)
(***************************************************************************)
JsUndefined == [t |-> "undefined", b |-> FALSE, n |-> 0, s |-> <<>>, keys |-> <<>>]
JsNull      == [t |-> "null",      b |-> FALSE, n |-> 0, s |-> <<>>, keys |-> <<>>]
JsBool(x)   == [t |-> "boolean",   b |-> x,     n |-> 0, s |-> <<>>, keys |-> <<>>]
JsNum(x)    == [t |-> "number",    b |-> FALSE, n |-> x, s |-> <<>>, keys |-> <<>>]
JsStr(x)    == [t |-> "string",    b |-> FALSE, n |-> 0, s |-> x,    keys |-> <<>>]
JsObj(ks)   == [t |-> "object",    b |-> FALSE, n |-> 0, s |-> <<>>, keys |-> ks]

\* the typeof operator
typeof(v) == IF v.t = "null" THEN "object" ELSE v.t

\* ToBoolean, as applied by `cond ? a : b` and `!x`
truthy(v) ==
    CASE v.t = "undefined" -> FALSE
      [] v.t = "null"      -> FALSE
      [] v.t = "boolean"   -> v.b
      [] v.t = "number"    -> v.n # 0
      [] v.t = "string"    -> v.s # <<>>
      [] OTHER             -> TRUE

(***************************************************************************)
(* String literals of the program and of the explored inputs.              *)
(***************************************************************************)
Dot        == <<".">>
DotSlash   == <<".", "/">>
Star       == <<"*">>
At         == <<"@">>
Slash      == <<"/">>
Dash       == <<"-">>
DotJson    == <<".", "j", "s", "o", "n">>
DotTgz     == <<".", "t", "g", "z">>
NodeModules == <<"n","o","d","e","_","m","o","d","u","l","e","s">>
Tests      == <<"_","_","t","e","s","t","s","_","_">>
DotTestDot == <<".", "t", "e", "s", "t", ".">>
DotStoriesDot == <<".", "s", "t", "o", "r", "i", "e", "s", ".">>

\* explored package names: unscoped, scoped
Names ==
    { <<"p","k","g">>,
      <<"@","s","c","o","p","e","/","p","k","g">> }

\* explored versions
Versions == { <<"1",".","2",".","3">>, <<"0",".","1",".","0">> }

\* explored keys of an "exports" object
KeyPool ==
    { Dot,
      <<".","/","a">>,
      <<".","/","b",".","j","s","o","n">>,
      <<".","/","*">>,
      <<"*">>,
      <<"b","a","d","-","k","e","y">> }

IndexJs == <<".","/","i","n","d","e","x",".","j","s">>

\* the sequences of at most MaxKeys distinct keys (Object.keys never repeats a key)
KeySeqs ==
    {ks \in UNION {[1..n -> KeyPool] : n \in 0..MaxKeys} :
        \A i, j \in 1..Len(ks) : i # j => ks[i] # ks[j]}

\* explored values of packageJson.exports
ExportsValues ==
    { JsUndefined, JsNull, JsBool(FALSE), JsBool(TRUE), JsNum(0), JsNum(1),
      JsStr(<<>>), JsStr(IndexJs) }
    \cup {JsObj(ks) : ks \in KeySeqs}

\* explored values of packageJson.main
MainValues ==
    { JsUndefined, JsNull, JsStr(<<>>), JsStr(IndexJs), JsNum(123) }

\* explored manifests (package.json)
Manifests ==
    [name : Names, version : Versions, exports : ExportsValues, main : MainValues]

(***************************************************************************)
(* Files of the installed package; a path is a sequence of segments.       *)
(***************************************************************************)
Lib == <<"l","i","b">>
PathPool ==
    { <<Lib, <<"i","n","d","e","x",".","j","s">> >>,
      <<Lib, Tests, <<"a",".","j","s">> >>,
      <<Lib, Tests, <<"a",".","t","e","s","t",".","j","s">> >>,
      <<Lib, <<"f","o","o",".","t","e","s","t",".","t","s">> >>,
      <<Lib, <<"f","o","o",".","s","t","o","r","i","e","s",".","t","s","x">> >>,
      <<NodeModules, <<"d","e","p">>, <<"x",".","t","e","s","t",".","j","s">> >> }

Trees == {t \in SUBSET PathPool : Cardinality(t) <= MaxFiles}

(***************************************************************************)
(* Pure functions of the program.                                          *)
(***************************************************************************)
\* getTgzName with the scope separator left in place
getTgzNameKeepsSlash(pj) ==
    LET transformedName ==
            IF startsWith(pj.name, At) THEN replace(pj.name, At, <<>>) ELSE pj.name
    IN  transformedName \o Dash \o pj.version \o DotTgz

\* getTgzName(): the archive name derived from packageJson.name and .version
getTgzName(pj) ==
    LET transformedName ==
            IF startsWith(pj.name, At)
            THEN replace(replace(pj.name, At, <<>>), Slash, Dash)
            ELSE pj.name
    IN  transformedName \o Dash \o pj.version \o DotTgz

\* process.cwd() of the run, an absolute directory
Cwd == <<"/", "w">>

\* path.resolve(p) of a relative path without "." or ".." segments
pathResolve(p) == Cwd \o Slash \o p

\* error messages, as a tag and the value interpolated into the text
Message(kind, arg) == [kind |-> kind, arg |-> arg]

\* a function's completion: a returned value or a thrown Error
Return(v) == [ok |-> TRUE, value |-> v, error |-> Message("none", <<>>)]
Throw(m)  == [ok |-> FALSE, value |-> <<>>, error |-> m]

\* Array.prototype.filter((key) => !key.includes('*'))
RECURSIVE filterNoStar(_)
filterNoStar(ks) ==
    IF ks = <<>> THEN <<>>
    ELSE IF includes(Head(ks), Star) THEN filterNoStar(Tail(ks))
         ELSE <<Head(ks)>> \o filterNoStar(Tail(ks))

\* the key test with the startsWith check inverted
validKeyNegated(key) == key = Dot \/ ~startsWith(key, DotSlash)

\* the callback of .map(): the key is "." or starts with "./"
validKey(key) == key = Dot \/ startsWith(key, DotSlash)

\* the descriptor .map() returns for a key
descriptor(key) == [key |-> key, type |-> IF endsWith(key, DotJson) THEN "json" ELSE "js"]

\* validateExports(exports)
validateExports(exports) ==
    IF typeof(exports) = "string" THEN
        Throw(Message("exports must be an object, not a string; use { \".\": value }",
                      exports.s))
    ELSE IF typeof(exports) = "object" /\ exports.t # "null" THEN
        LET objectExports == exports.keys
            kept == filterNoStar(objectExports)
            bad == {i \in 1..Len(kept) : ~validKey(kept[i])}
        IN  IF Len(objectExports) = 0 THEN
                Throw(Message("There must be at least one export", <<>>))
            ELSE IF bad # {} THEN
                \* .map() throws at the first key that fails the test
                Throw(Message("Invalid exports key",
                              kept[CHOOSE i \in bad : \A j \in bad : i <= j]))
            ELSE Return([i \in 1..Len(kept) |-> descriptor(kept[i])])
    ELSE Throw(Message("Invalid exports type. It must be an object", <<>>))

\* validateMain without the typeof check
validateMainAnyType(main) ==
    IF ~truthy(main) THEN
        Throw(Message("Found no exports nor main field in package.json", <<>>))
    ELSE Return(<<[key |-> Dot, type |-> "js"]>>)

\* validateMain(main)
validateMain(main) ==
    IF ~truthy(main) THEN
        Throw(Message("Found no exports nor main field in package.json", <<>>))
    ELSE IF typeof(main) # "string" THEN
        Throw(Message("The main field in package.json must be a string", <<>>))
    ELSE Return(<<[key |-> Dot, type |-> "js"]>>)

\* verifyExports, lines 35-37: the descriptor list, or the validation error
detectExports(pj) ==
    IF truthy(pj.exports) THEN validateExports(pj.exports) ELSE validateMain(pj.main)

\* the specifier with key.slice(1) in place of key.slice(2)
specifierSliceOne(pj, key) ==
    IF key = Dot THEN pj.name ELSE pj.name \o Slash \o slice(key, 1)

\* verifyExports, lines 40-44: the import specifier of a descriptor
specifier(pj, key) ==
    IF key = Dot THEN pj.name ELSE pj.name \o Slash \o slice(key, 2)

\* verifyExports, lines 45-46: whether the import carries { with: { type: "json" } }
importAttributes(type) == type = "json"

(***************************************************************************)
(* globSync(forbiddenFiles, {includeChildMatches: false,                   *)
(*          ignore: 'node_modules/**', dot: true, cwd: <installed pkg>})   *)
(***************************************************************************)
\* every file and directory under the search root
Entries(tree) == UNION {{SubSeq(p, 1, n) : n \in 1..Len(p)} : p \in tree}

\* the patterns without '**/*.stories.*'
forbiddenNoStories(path) ==
    LET last == path[Len(path)]
    IN  last = Tests \/ includes(last, DotTestDot)

\* '**/__tests__', '**/*.test.*', '**/*.stories.*': decided by the last segment
forbidden(path) ==
    LET last == path[Len(path)]
    IN  \/ last = Tests
        \/ includes(last, DotTestDot)
        \/ includes(last, DotStoriesDot)

\* ignore: 'node_modules/**' drops the root node_modules and all below it
ignored(path) == path[1] = NodeModules

\* every entry a forbidden pattern matches
Matches(tree) == {p \in Entries(tree) : ~ignored(p) /\ forbidden(p)}

\* p lies below q
Below(p, q) == Len(p) > Len(q) /\ SubSeq(p, 1, Len(q)) = q

\* includeChildMatches: false drops a match below another match only when the
\* walk meets the ancestor first, so a child match may or may not be returned
globSync(tree) ==
    LET m == Matches(tree)
        top == {p \in m : \A q \in m : ~Below(p, q)}
    IN  {f \in SUBSET m : top \subseteq f}

(***************************************************************************)
(* The run.                                                                *)
(***************************************************************************)
\* the steps array: the function each step runs
steps == <<"packLibrary", "installLibrary", "verifyExports", "checkPublishedFiles">>

VARIABLES
    packageJson,  \* the parsed manifest, read once at start
    pc,           \* position of the program
    stepIdx,      \* index in steps of the step the loop is at
    groupOpen,    \* index of the step whose core.group is open, 0 when none
    groups,       \* the steps whose group was started, in order
    results,      \* the value of `success` for each finished step, in order
    failures,     \* the core.setFailed calls: the open group and the message
    exitCode,     \* process.exitCode
    execs,        \* the exec.exec calls, in order
    exports,      \* verifyExports' descriptor list
    idx,          \* verifyExports' position in the descriptor list
    installed,    \* files of the package installed in the scratch project
    report        \* what checkPublishedFiles logged: count and paths

vars == <<packageJson, pc, stepIdx, groupOpen, groups, results, failures,
          exitCode, execs, exports, idx, installed, report>>

NoReport == [logged |-> FALSE, count |-> 0, listed |-> FALSE, paths |-> {}]

Init ==
    /\ packageJson \in Manifests
    /\ pc = "loop"
    /\ stepIdx = 1
    /\ groupOpen = 0
    /\ groups = <<>>
    /\ results = <<>>
    /\ failures = <<>>
    /\ exitCode = 0
    /\ execs = <<>>
    /\ exports = <<>>
    /\ idx = 1
    /\ installed = {}
    /\ report = NoReport

\* the first position of each step's function
entry(fn) ==
    CASE fn = "packLibrary"         -> "pack"
      [] fn = "installLibrary"      -> "init"
      [] fn = "verifyExports"       -> "detect"
      [] fn = "checkPublishedFiles" -> "audit"

\* an exec.exec call and whether the process exited with 0
Exec(cmd, arg, json, ok) == [cmd |-> cmd, arg |-> arg, json |-> json, ok |-> ok]

\* the Error exec.exec rejects with
execError(cmd) == Message("The process failed", cmd)

\* step.fn() returned: the group ends, success is true, the loop goes on
StepReturns ==
    /\ results' = Append(results, TRUE)
    /\ groupOpen' = 0
    /\ stepIdx' = stepIdx + 1
    /\ pc' = "loop"
    /\ UNCHANGED <<failures, exitCode>>

\* a throwing step without the break: the loop goes on to the next step
StepThrowsNoBreak(error) ==
    /\ failures' = Append(failures, [group |-> groupOpen, message |-> error])
    /\ exitCode' = 1
    /\ results' = Append(results, FALSE)
    /\ groupOpen' = 0
    /\ stepIdx' = stepIdx + 1
    /\ pc' = "loop"

\* a throwing step whose error is reported after its group has ended
StepThrowsAfterGroup(error) ==
    /\ failures' = Append(failures, [group |-> 0, message |-> error])
    /\ exitCode' = 1
    /\ results' = Append(results, FALSE)
    /\ groupOpen' = 0
    /\ pc' = "done"
    /\ UNCHANGED stepIdx

\* step.fn() threw: setFailed inside the group, success is false, break
StepThrows(error) ==
    /\ failures' = Append(failures, [group |-> groupOpen, message |-> error])
    /\ exitCode' = 1
    /\ results' = Append(results, FALSE)
    /\ groupOpen' = 0
    /\ pc' = "done"
    /\ UNCHANGED stepIdx

\* for (const step of steps): core.group(step.name, ...) starts the next step
EnterStep ==
    /\ pc = "loop"
    /\ stepIdx <= Len(steps)
    /\ groups' = Append(groups, stepIdx)
    /\ groupOpen' = stepIdx
    /\ pc' = entry(steps[stepIdx])
    /\ UNCHANGED <<packageJson, stepIdx, results, failures, exitCode, execs,
                   exports, idx, installed, report>>

\* the loop ran out of steps
LoopEnd ==
    /\ pc = "loop"
    /\ stepIdx > Len(steps)
    /\ pc' = "done"
    /\ UNCHANGED <<packageJson, stepIdx, groupOpen, groups, results, failures,
                   exitCode, execs, exports, idx, installed, report>>

\* packLibrary: npm pack
PackLibrary ==
    /\ pc = "pack"
    /\ \E ok \in BOOLEAN :
        /\ execs' = Append(execs, Exec("npm pack", <<>>, FALSE, ok))
        /\ IF ok THEN StepReturns ELSE StepThrows(execError("npm pack"))
    /\ UNCHANGED <<packageJson, groups, exports, idx, installed, report>>

\* installLibrary going on to npm install whatever npm init returned
InstallInitIgnoresFailure ==
    /\ pc = "init"
    /\ \E ok \in BOOLEAN :
        execs' = Append(execs, Exec("npm init", <<>>, FALSE, ok))
    /\ pc' = "install"
    /\ UNCHANGED <<stepIdx, groupOpen, results, failures, exitCode>>
    /\ UNCHANGED <<packageJson, groups, exports, idx, installed, report>>

\* installLibrary: npm init -y in the scratch project
InstallInit ==
    /\ pc = "init"
    /\ \E ok \in BOOLEAN :
        /\ execs' = Append(execs, Exec("npm init", <<>>, FALSE, ok))
        /\ IF ok
           THEN /\ pc' = "install"
                /\ UNCHANGED <<stepIdx, groupOpen, results, failures, exitCode>>
           ELSE StepThrows(execError("npm init"))
    /\ UNCHANGED <<packageJson, groups, exports, idx, installed, report>>

\* installLibrary: npm install <tgzPath> in the scratch project
InstallPackage ==
    /\ pc = "install"
    /\ \E ok \in BOOLEAN :
        /\ execs' = Append(execs,
                Exec("npm install", pathResolve(getTgzName(packageJson)), FALSE, ok))
        /\ IF ok
           THEN /\ installed' \in Trees
                /\ StepReturns
           ELSE /\ UNCHANGED installed
                /\ StepThrows(execError("npm install"))
    /\ UNCHANGED <<packageJson, groups, exports, idx, report>>

\* verifyExports: the descriptor list from exports or main
VerifyDetect ==
    /\ pc = "detect"
    /\ LET r == detectExports(packageJson)
       IN  IF r.ok
           THEN /\ exports' = r.value
                /\ idx' = 1
                /\ pc' = "import"
                /\ UNCHANGED <<stepIdx, groupOpen, results, failures, exitCode>>
           ELSE /\ UNCHANGED <<exports, idx>>
                /\ StepThrows(r.error)
    /\ UNCHANGED <<packageJson, groups, execs, installed, report>>

\* verifyExports: one turn of the for loop, the import probe of a descriptor
VerifyImport ==
    /\ pc = "import"
    /\ idx <= Len(exports)
    /\ \E ok \in BOOLEAN :
        /\ execs' = Append(execs,
                Exec("node import", specifier(packageJson, exports[idx].key),
                     importAttributes(exports[idx].type), ok))
        /\ IF ok
           THEN /\ idx' = idx + 1
                /\ UNCHANGED <<pc, stepIdx, groupOpen, results, failures, exitCode>>
           ELSE /\ UNCHANGED idx
                /\ StepThrows(execError("node import"))
    /\ UNCHANGED <<packageJson, groups, exports, installed, report>>

\* verifyExports: the for loop is over
VerifyReturn ==
    /\ pc = "import"
    /\ idx > Len(exports)
    /\ StepReturns
    /\ UNCHANGED <<packageJson, groups, execs, exports, idx, installed, report>>

\* checkPublishedFiles
CheckPublishedFiles ==
    /\ pc = "audit"
    /\ \E foundFiles \in globSync(installed) :
        LET length == Cardinality(foundFiles)
        IN  /\ report' = [logged |-> TRUE, count |-> length,
                          listed |-> length > 0, paths |-> foundFiles]
            /\ IF length > 0
               THEN StepThrows(Message("Found forbidden files in the package", <<>>))
               ELSE StepReturns
    /\ UNCHANGED <<packageJson, groups, execs, exports, idx, installed>>

Next ==
    \/ EnterStep
    \/ LoopEnd
    \/ PackLibrary
    \/ InstallInit
    \/ InstallPackage
    \/ VerifyDetect
    \/ VerifyImport
    \/ VerifyReturn
    \/ CheckPublishedFiles

Spec == Init /\ [][Next]_vars

(***************************************************************************)
(* Vocabulary of the properties.                                           *)
(***************************************************************************)
\* step k finished, and finished without error
StageDone(k) == Len(results) >= k
StageOk(k) == Len(results) >= k /\ results[k]
StageFailed(k) == Len(results) >= k /\ ~results[k]

\* terminal states of the run
Succeeded == pc = "done" /\ exitCode = 0
Failed == pc = "done" /\ exitCode = 1

IsImport(e) == e.cmd = "node import"
\* the import probes attempted so far, in order
ImportExecs == SelectSeq(execs, IsImport)

\* the keys of an exports object that hold no '*', in key order
NoStar(key) == \A i \in 1..Len(key) : key[i] # "*"
ConcreteKeys(ks) == SelectSeq(ks, NoStar)

\* a key that is "." or begins with "./"
WellFormed(key) ==
    \/ key = <<".">>
    \/ (Len(key) >= 2 /\ key[1] = "." /\ key[2] = "/")

\* the specifier the verifier is to import for a well-formed key
ExpectedSpecifier(key) ==
    IF key = <<".">> THEN packageJson.name
    ELSE packageJson.name \o <<"/">> \o [i \in 1..(Len(key) - 2) |-> key[i + 2]]

ExportsIsMap == packageJson.exports.t = "object"
ExportKeys == packageJson.exports.keys

(***************************************************************************)
(* C1: the stages run only in the order Pack, Install, Verify, Audit; a    *)
(* stage starts only if every earlier stage finished without error; the    *)
(* run succeeds only after all four succeeded; once a stage has failed the *)
(* run is Failed and no later stage (and no further external operation)    *)
(* is started.                                                             *)
(***************************************************************************)
C1_State ==
    /\ Len(groups) <= 4
    /\ \A k \in 1..Len(groups) :
        /\ groups[k] = k
        /\ \A j \in 1..(k - 1) : StageOk(j)
    /\ Succeeded => \A k \in 1..4 : StageOk(k)
    /\ \A k \in 1..Len(results) : ~results[k] => Failed

C1_Step ==
    (\E k \in 1..Len(results) : ~results[k]) =>
        /\ groups' = groups
        /\ execs' = execs
        /\ pc' = "done"

C1_StageOrder == [](C1_State) /\ [][C1_Step]_vars

\* Install failed after Pack succeeded: Verify and Audit were never started
C1_Witness ==
    /\ Failed
    /\ results = <<TRUE, FALSE>>
    /\ groups = <<1, 2>>

(***************************************************************************)
(* C2 (as claimed): the descriptor list the Verify stage works on is       *)
(* never empty, and the Verify stage never succeeds with zero imports      *)
(* attempted.                                                              *)
(***************************************************************************)
C2_DescriptorsNonEmpty ==
    /\ pc = "import" => exports # <<>>
    /\ StageOk(3) => Len(ImportExecs) > 0

(***************************************************************************)
(* C3 (as claimed): when the exports field is present and is a string, a   *)
(* number, a boolean or null, the Verify stage fails with a validation     *)
(* error about exports (for a string, the one suggesting { ".": value }),  *)
(* and main is never consulted, so no import is attempted.                 *)
(***************************************************************************)
C3_ExportsMustBeObject ==
    (packageJson.exports.t \in {"string", "number", "boolean", "null"} /\ StageDone(3)) =>
        /\ StageFailed(3)
        /\ Len(failures) = 1
        /\ failures[1].message.kind \in
              { "exports must be an object, not a string; use { \".\": value }",
                "Invalid exports type. It must be an object" }
        /\ packageJson.exports.t = "string" =>
              failures[1].message =
                  Message("exports must be an object, not a string; use { \".\": value }",
                          packageJson.exports.s)
        /\ ImportExecs = <<>>

(***************************************************************************)
(* C4: for an exports map whose keys are all well-formed or wildcards,     *)
(* the imports attempted are, in key order, those of the keys without '*': *)
(* the package name for ".", name/x for "./x"; and when the Verify stage   *)
(* succeeded there is exactly one successful import per such key.          *)
(***************************************************************************)
C4_OneImportPerKey ==
    (ExportsIsMap /\ \A i \in 1..Len(ExportKeys) :
                        WellFormed(ExportKeys[i]) \/ ~NoStar(ExportKeys[i])) =>
        LET want == ConcreteKeys(ExportKeys)
        IN  /\ Len(ImportExecs) <= Len(want)
            /\ \A i \in 1..Len(ImportExecs) :
                  ImportExecs[i].arg = ExpectedSpecifier(want[i])
            /\ StageOk(3) =>
                  /\ Len(ImportExecs) = Len(want)
                  /\ \A i \in 1..Len(want) : ImportExecs[i].ok

\* a scoped package with a wildcard key and a subpath key: one import, of name/a
C4_Witness ==
    /\ StageOk(3)
    /\ ExportsIsMap
    /\ ExportKeys = << <<".","/","*">>, <<".","/","a">> >>
    /\ packageJson.name[1] = "@"
    /\ Len(ImportExecs) = 1

(***************************************************************************)
(* C5: an exports map holding a key without '*' that is neither "." nor    *)
(* begins with "./" makes the Verify stage fail with the invalid-key error *)
(* naming such a key (the first in key order), with no import attempted    *)
(* for any key; a key holding '*' is never the one named.                  *)
(***************************************************************************)
C5_InvalidKeyFails ==
    LET bad == {i \in 1..Len(ExportKeys) :
                    NoStar(ExportKeys[i]) /\ ~WellFormed(ExportKeys[i])}
    IN  /\ (ExportsIsMap /\ bad # {}) =>
            /\ ImportExecs = <<>>
            /\ StageDone(3) =>
                /\ StageFailed(3)
                /\ Len(failures) = 1
                /\ failures[1].message.kind = "Invalid exports key"
                /\ \E i \in bad :
                    /\ failures[1].message.arg = ExportKeys[i]
                    /\ \A j \in bad : i <= j
        /\ \A f \in 1..Len(failures) :
              failures[f].message.kind = "Invalid exports key" =>
                  NoStar(failures[f].message.arg)

\* a valid key precedes the bad one, and still nothing was imported
C5_Witness ==
    /\ ExportsIsMap
    /\ ExportKeys = << <<".","/","a">>, <<"b","a","d","-","k","e","y">> >>
    /\ StageFailed(3)
    /\ failures[1].message.arg = <<"b","a","d","-","k","e","y">>

(***************************************************************************)
(* C6 (as claimed): without an exports field, an absent main fails the     *)
(* Verify stage, a main that is not a string fails it, and a main that is  *)
(* a string gives exactly the descriptor for "." as a script module, so    *)
(* the package name is the one import attempted.                           *)
(***************************************************************************)
C6_MainAsClaimed ==
    (packageJson.exports.t = "undefined" /\ groups = <<1, 2, 3>> /\ pc # "detect") =>
        /\ packageJson.main.t = "undefined" => StageFailed(3) /\ ImportExecs = <<>>
        /\ packageJson.main.t \notin {"undefined", "string"} =>
              StageFailed(3) /\ ImportExecs = <<>>
        /\ packageJson.main.t = "string" =>
              /\ exports = <<[key |-> <<".">>, type |-> "js"]>>
              /\ StageDone(3) =>
                    /\ Len(ImportExecs) = 1
                    /\ ImportExecs[1].arg = packageJson.name
                    /\ ~ImportExecs[1].json

(***************************************************************************)
(* C6 (amended): as above, but a main that is a string gives the one       *)
(* descriptor only when it is not the empty string; an empty main fails    *)
(* the Verify stage like an absent one.                                    *)
(***************************************************************************)
C6_MainFallback ==
    (packageJson.exports.t = "undefined" /\ groups = <<1, 2, 3>> /\ pc # "detect") =>
        /\ packageJson.main.t = "undefined" => StageFailed(3) /\ ImportExecs = <<>>
        /\ packageJson.main.t \notin {"undefined", "string"} =>
              StageFailed(3) /\ ImportExecs = <<>>
        /\ (packageJson.main.t = "string" /\ packageJson.main.s = <<>>) =>
              /\ StageFailed(3) /\ ImportExecs = <<>>
              /\ failures[1].message.kind =
                    "Found no exports nor main field in package.json"
        /\ (packageJson.main.t = "string" /\ packageJson.main.s # <<>>) =>
              /\ exports = <<[key |-> <<".">>, type |-> "js"]>>
              /\ StageDone(3) =>
                    /\ Len(ImportExecs) = 1
                    /\ ImportExecs[1].arg = packageJson.name
                    /\ ~ImportExecs[1].json

\* main: "./index.js" and no exports: the package name was imported, once
C6_Witness ==
    /\ packageJson.exports.t = "undefined"
    /\ packageJson.main.t = "string" /\ packageJson.main.s # <<>>
    /\ StageOk(3)
    /\ Len(ImportExecs) = 1

(***************************************************************************)
(* C7: the Audit stage fails exactly when the installed package holds a    *)
(* forbidden file; with none the stage succeeds and the run is Succeeded;  *)
(* with some, the count and every matched path are reported before the     *)
(* failure; for lib/__tests__/a.js, lib/foo.test.ts, lib/foo.stories.tsx   *)
(* the count is 3.                                                         *)
(***************************************************************************)
C7_Contains(seg, word) ==
    \E i \in 1..(Len(seg) - Len(word) + 1) :
        \A j \in 1..Len(word) : seg[i + j - 1] = word[j]

\* some file or directory outside the root node_modules is forbidden by name
C7_HasForbidden(tree) ==
    \E p \in tree : \E n \in 1..Len(p) :
        /\ p[1] # <<"n","o","d","e","_","m","o","d","u","l","e","s">>
        /\ \/ p[n] = <<"_","_","t","e","s","t","s","_","_">>
           \/ C7_Contains(p[n], <<".","t","e","s","t",".">>)
           \/ C7_Contains(p[n], <<".","s","t","o","r","i","e","s",".">>)

C7_Example ==
    { << <<"l","i","b">>, <<"_","_","t","e","s","t","s","_","_">>, <<"a",".","j","s">> >>,
      << <<"l","i","b">>, <<"f","o","o",".","t","e","s","t",".","t","s">> >>,
      << <<"l","i","b">>, <<"f","o","o",".","s","t","o","r","i","e","s",".","t","s","x">> >> }

C7_AuditFailsIffForbidden ==
    StageDone(4) =>
        /\ StageFailed(4) <=> C7_HasForbidden(installed)
        /\ ~C7_HasForbidden(installed) =>
              /\ StageOk(4) /\ report.count = 0 /\ exitCode = 0
              /\ pc = "done" => Succeeded
        /\ report.logged
        /\ report.count = Cardinality(report.paths)
        /\ StageFailed(4) =>
              /\ report.count > 0
              /\ report.listed
              /\ failures[1].message.kind = "Found forbidden files in the package"
        /\ (/\ C7_Example \subseteq installed
            /\ \A p \in installed \ C7_Example : ~C7_HasForbidden({p})) =>
              report.count = 3 /\ StageFailed(4)

C7_Witness ==
    /\ installed = C7_Example
    /\ StageFailed(4)
    /\ report.count = 3

(***************************************************************************)
(* C8: the archive handed to npm install is name' - version .tgz, where    *)
(* name' is the name itself for an unscoped name and, for @scope/pkg,      *)
(* scope-pkg; @scope/pkg at 1.2.3 gives scope-pkg-1.2.3.tgz.               *)
(***************************************************************************)
C8_Collapsed(name) ==
    IF name[1] = "@"
    THEN [i \in 1..(Len(name) - 1) |-> IF name[i + 1] = "/" THEN "-" ELSE name[i + 1]]
    ELSE name

C8_TgzName ==
    \A i \in 1..Len(execs) :
        execs[i].cmd = "npm install" =>
            /\ execs[i].arg =
                  <<"/", "w", "/">> \o C8_Collapsed(packageJson.name) \o <<"-">>
                      \o packageJson.version \o <<".","t","g","z">>
            /\ (/\ packageJson.name = <<"@","s","c","o","p","e","/","p","k","g">>
                /\ packageJson.version = <<"1",".","2",".","3">>) =>
                  execs[i].arg = <<"/","w","/","s","c","o","p","e","-","p","k","g","-",
                                   "1",".","2",".","3",".","t","g","z">>

C8_Witness ==
    /\ packageJson.name = <<"@","s","c","o","p","e","/","p","k","g">>
    /\ packageJson.version = <<"1",".","2",".","3">>
    /\ \E i \in 1..Len(execs) : execs[i].cmd = "npm install"

(***************************************************************************)
(* C9: setFailed is called at most once; when the run is over it was       *)
(* called exactly when some stage failed (so never in a Succeeded run);    *)
(* the call is made inside the group of the stage that threw, the last     *)
(* one started, with the message of the error thrown; the exit status is   *)
(* failed exactly when setFailed was called.                               *)
(***************************************************************************)
C9_SingleFailureReport ==
    /\ Len(failures) <= 1
    /\ exitCode = 1 <=> Len(failures) = 1
    /\ Len(failures) = 1 <=> \E k \in 1..Len(results) : ~results[k]
    /\ Succeeded => failures = <<>>
    /\ Len(failures) = 1 =>
        LET f == failures[1]
            last == IF execs = <<>> THEN Exec("none", <<>>, FALSE, TRUE)
                    ELSE execs[Len(execs)]
        IN  /\ pc = "done"
            /\ f.group \in 1..4
            /\ f.group = groups[Len(groups)]
            /\ f.group = Len(results)
            /\ ~results[f.group]
            /\ \A k \in 1..(f.group - 1) : results[k]
            /\ ~last.ok => f.message = [kind |-> "The process failed", arg |-> last.cmd]
            /\ ~last.ok =>
                  last.cmd = CASE f.group = 1 -> "npm pack"
                               [] f.group = 2 -> IF Len(execs) = 2 THEN "npm init"
                                                 ELSE "npm install"
                               [] f.group = 3 -> "node import"
                               [] OTHER -> "none"
            /\ last.ok =>
                  \/ /\ f.group = 3
                     /\ ImportExecs = <<>>
                     /\ f.message.kind \in
                          { "exports must be an object, not a string; use { \".\": value }",
                            "There must be at least one export",
                            "Invalid exports key",
                            "Invalid exports type. It must be an object",
                            "Found no exports nor main field in package.json",
                            "The main field in package.json must be a string" }
                  \/ /\ f.group = 4
                     /\ f.message.kind = "Found forbidden files in the package"

\* the Verify stage threw on the manifest: one report, in group 3
C9_Witness ==
    /\ Failed
    /\ Len(failures) = 1
    /\ failures[1].group = 3
    /\ failures[1].message.kind = "There must be at least one export"

(***************************************************************************)
(* C10: no stage is entered twice; npm pack, npm init, npm install and     *)
(* the import of each descriptor run at most once; nothing runs after an   *)
(* operation failed; npm install runs only right after a successful npm    *)
(* init, and an import only after every earlier import succeeded.          *)
(***************************************************************************)
C10_NoRetry ==
    /\ \A i, j \in 1..Len(groups) : i # j => groups[i] # groups[j]
    /\ \A c \in {"npm pack", "npm init", "npm install"} :
          Cardinality({i \in 1..Len(execs) : execs[i].cmd = c}) <= 1
    /\ Len(ImportExecs) <= Len(exports)
    /\ \A i \in 1..Len(ImportExecs) :
          /\ ImportExecs[i].arg = ExpectedSpecifier(exports[i].key)
          /\ \A j \in 1..(i - 1) :
                /\ ImportExecs[j].ok
                /\ ImportExecs[j].arg # ImportExecs[i].arg
    /\ \A i \in 1..(Len(execs) - 1) : execs[i].ok
    /\ \A i \in 1..Len(execs) :
          execs[i].cmd = "npm install" =>
              i > 1 /\ execs[i - 1].cmd = "npm init" /\ execs[i - 1].ok

\* two imports were attempted, the second one failed and ended the run
C10_Witness ==
    /\ Failed
    /\ Len(ImportExecs) = 2
    /\ ~ImportExecs[2].ok

====
